---- MODULE Spec2Model ----
(***************************************************************************)
(* A model of sync_vsix.py: engine-aware selection of extension versions   *)
(* per market, download of the selected VSIX files into per-market         *)
(* directories and cleanup of the files that are no longer selected.       *)
(*                                                                         *)
(* Strings that the program parses (version strings, engine range          *)
(* expressions, extension ids) are kept as strings; parsing is a lookup    *)
(* into the structure the semantic_version library would build.            *)
(***************************************************************************)
EXTENDS Naturals, Sequences, FiniteSets, TLC

\* ------------------------------------------------------------------------
\* Bounds of the model
\* ------------------------------------------------------------------------

\* longest catalog ("versions" list) of a registry response, selection model
MaxVersions == 2
\* most package files present in the market directories before the first run
MaxInitFiles == 1
\* most I/O failures (of a download or an unlink) in one behaviour
MaxFailures == 1

\* ------------------------------------------------------------------------
\* Configuration
\* ------------------------------------------------------------------------

\* semantic_version.Version(s): the parsed (major, minor, patch) of a version
\* string; build metadata ("+b") is kept out of the precedence, and a string
\* that is not major.minor.patch raises ValueError.
VersionTable ==
    [s \in {"1.0.0", "2.0.0", "2.0.0+b", "1.99.3", "1.104.0"} |->
        CASE s = "1.0.0"   -> <<1, 0, 0>>
          [] s = "2.0.0"   -> <<2, 0, 0>>
          [] s = "2.0.0+b" -> <<2, 0, 0>>
          [] s = "1.99.3"  -> <<1, 99, 3>>
          [] s = "1.104.0" -> <<1, 104, 0>>]

VersionParses(s) == s \in DOMAIN VersionTable

Version(s) == VersionTable[s]

\* Version.__lt__: precedence order on (major, minor, patch)
VersionLess(a, b) ==
    \/ a[1] < b[1]
    \/ a[1] = b[1] /\ a[2] < b[2]
    \/ a[1] = b[1] /\ a[2] = b[2] /\ a[3] < b[3]

MARKET_ENGINES == [cursor |-> "1.99.3", agy |-> "1.104.0"]

MarketNames == DOMAIN MARKET_ENGINES

\* the directory of a market is named after the market: vsix-{name}
MARKETS == [name \in MarketNames |->
              [engine |-> MARKET_ENGINES[name], directory |-> name]]

\* ------------------------------------------------------------------------
\* Engine range expressions (semantic_version.SimpleSpec)
\* ------------------------------------------------------------------------

\* SimpleSpec(expression): the parsed clause of a range expression, an
\* operator and a version; "*" has no version. An expression outside the
\* grammar raises ValueError.
SpecTable ==
    [e \in {"^1.90.0", "^1.100.0", "~1.99.0", ">=1.104.0", "*"} |->
        CASE e = "^1.90.0"   -> [op |-> "^",  v |-> <<1, 90, 0>>]
          [] e = "^1.100.0"  -> [op |-> "^",  v |-> <<1, 100, 0>>]
          [] e = "~1.99.0"   -> [op |-> "~",  v |-> <<1, 99, 0>>]
          [] e = ">=1.104.0" -> [op |-> ">=", v |-> <<1, 104, 0>>]
          [] e = "*"         -> [op |-> "*",  v |-> <<0, 0, 0>>]]

SpecParses(e) == e \in DOMAIN SpecTable

SimpleSpec(e) == SpecTable[e]

\* the exclusive upper end of a caret range: the next major, or for 0.x the
\* next minor, or for 0.0.x the next patch
CaretUpper(v) ==
    IF v[1] # 0 THEN <<v[1] + 1, 0, 0>>
    ELSE IF v[2] # 0 THEN <<0, v[2] + 1, 0>>
    ELSE <<0, 0, v[3] + 1>>

\* the exclusive upper end of a tilde range: the next minor
TildeUpper(v) == <<v[1], v[2] + 1, 0>>

\* engine_ver in spec
Matches(spec, ver) ==
    CASE spec.op = "*"  -> TRUE
      [] spec.op = "^"  -> ~VersionLess(ver, spec.v) /\ VersionLess(ver, CaretUpper(spec.v))
      [] spec.op = "~"  -> ~VersionLess(ver, spec.v) /\ VersionLess(ver, TildeUpper(spec.v))
      [] spec.op = ">=" -> ~VersionLess(ver, spec.v)
      [] spec.op = ">"  -> VersionLess(spec.v, ver)
      [] spec.op = "<=" -> ~VersionLess(spec.v, ver)
      [] spec.op = "<"  -> VersionLess(ver, spec.v)
      [] spec.op = "==" -> ver = spec.v
      [] OTHER          -> FALSE

\* ------------------------------------------------------------------------
\* Registry metadata
\* ------------------------------------------------------------------------

VSIXPackage == "Microsoft.VisualStudio.Services.VSIXPackage"
EngineKey == "Microsoft.VisualStudio.Code.Engine"

\* get_target_engines: the parsed engine version of each selected market,
\* keyed in the order of the markets list
get_target_engines(markets) ==
    [i \in 1..Len(markets) |->
        [market |-> markets[i], engine |-> Version(MARKETS[markets[i]].engine)]]

\* the places of the properties with the engine key: engine_prop is the
\* first of them, and None when there is none
EngineProps(vdata) ==
    {i \in 1..Len(vdata.properties) : vdata.properties[i].key = EngineKey}

HasEngineProp(vdata) == EngineProps(vdata) # {}

EngineValue(vdata) ==
    vdata.properties[CHOOSE i \in EngineProps(vdata) :
                        \A j \in EngineProps(vdata) : i <= j].value

\* a URL is the source of an asset (a tuple; the empty one is a missing or
\* empty source) or the gallery URL of MS_VSIX_BASE filled in; NoUrl stands
\* for None
NoUrl == <<>>

MS_VSIX_BASE(publisher, name, version) == <<"vspackage", publisher, name, version>>

\* get_vsix_url_for_version: the source of the first VSIX package asset that
\* has one, else the gallery URL built from publisher, name and version, else
\* None
get_vsix_url_for_version(metadata, vdata, version_str) ==
    LET files == vdata.files
        idx == {i \in 1..Len(files) :
                   files[i].assetType = VSIXPackage /\ files[i].source # <<>>}
    IN IF idx # {}
       THEN files[CHOOSE i \in idx : \A j \in idx : i <= j].source
       ELSE IF metadata.publisherName # "" /\ metadata.extensionName # ""
       THEN MS_VSIX_BASE(metadata.publisherName, metadata.extensionName, version_str)
       ELSE NoUrl

\* the sort of line 227 raises when the version string of an entry does not
\* parse (ValueError; an entry without "version" raises KeyError likewise)
SortRaises(versions) ==
    \E i \in 1..Len(versions) : ~VersionParses(versions[i].version)

\* sorted(versions, key=Version, reverse=True): descending by precedence,
\* entries of equal precedence in their catalog order (the sort is stable).
\* Entry i goes to the place after every entry that is newer, or equal and
\* earlier.
SortedPlace(versions, i) ==
    1 + Cardinality({j \in 1..Len(versions) :
          \/ VersionLess(Version(versions[i].version), Version(versions[j].version))
          \/ /\ Version(versions[j].version) = Version(versions[i].version)
             /\ j < i})

\* (mutant of versions_sorted: the sort is not stable, entries of equal
\* precedence come out in the reverse of their catalog order)
versions_sorted_unstable(versions) ==
    [p \in 1..Len(versions) |->
        versions[CHOOSE i \in 1..Len(versions) :
            p = 1 + Cardinality({j \in 1..Len(versions) :
                  \/ VersionLess(Version(versions[i].version),
                                 Version(versions[j].version))
                  \/ /\ Version(versions[j].version) = Version(versions[i].version)
                     /\ j > i})]]

\* (mutant of versions_sorted: the catalog is scanned in the registry's order)
versions_unsorted(versions) == versions

versions_sorted(versions) ==
    [p \in 1..Len(versions) |->
        versions[CHOOSE i \in 1..Len(versions) : SortedPlace(versions, i) = p]]

\* the scan of one market (the inner loop of lines 236-260) from place i of
\* the sorted versions: a record with no engine property, with a value that
\* does not parse, or whose range excludes engine_ver is passed over; the
\* first other record ends the scan, with (version_str, url) when its URL
\* resolves and with no entry when it does not. NoEntry: the market is not
\* put in per_market.
NoEntry == <<>>

\* (mutant of Scan: a record whose URL does not resolve is passed over and
\* an older record is selected in its place)
RECURSIVE ScanFallsThrough(_, _, _, _)
ScanFallsThrough(metadata, sorted, i, engine_ver) ==
    IF i > Len(sorted) THEN NoEntry
    ELSE LET vdata == sorted[i]
             url == get_vsix_url_for_version(metadata, vdata, vdata.version)
         IN IF /\ HasEngineProp(vdata)
               /\ SpecParses(EngineValue(vdata))
               /\ Matches(SimpleSpec(EngineValue(vdata)), engine_ver)
               /\ url # NoUrl
            THEN <<vdata.version, url>>
            ELSE ScanFallsThrough(metadata, sorted, i + 1, engine_ver)

\* (mutant of Scan: a range that does not parse matches every engine)
RECURSIVE ScanBadRangeMatches(_, _, _, _)
ScanBadRangeMatches(metadata, sorted, i, engine_ver) ==
    IF i > Len(sorted) THEN NoEntry
    ELSE LET vdata == sorted[i]
             url == get_vsix_url_for_version(metadata, vdata, vdata.version)
         IN IF ~HasEngineProp(vdata)
            THEN ScanBadRangeMatches(metadata, sorted, i + 1, engine_ver)
            ELSE IF /\ SpecParses(EngineValue(vdata))
                    /\ ~Matches(SimpleSpec(EngineValue(vdata)), engine_ver)
            THEN ScanBadRangeMatches(metadata, sorted, i + 1, engine_ver)
            ELSE IF url = NoUrl THEN NoEntry ELSE <<vdata.version, url>>

RECURSIVE Scan(_, _, _, _)
Scan(metadata, sorted, i, engine_ver) ==
    IF i > Len(sorted) THEN NoEntry
    ELSE LET vdata == sorted[i]
         IN IF ~HasEngineProp(vdata)
            THEN Scan(metadata, sorted, i + 1, engine_ver)
            ELSE IF ~SpecParses(EngineValue(vdata))
            THEN Scan(metadata, sorted, i + 1, engine_ver)
            ELSE IF ~Matches(SimpleSpec(EngineValue(vdata)), engine_ver)
            THEN Scan(metadata, sorted, i + 1, engine_ver)
            ELSE LET ver_str == vdata.version
                     url == get_vsix_url_for_version(metadata, vdata, ver_str)
                 IN IF url = NoUrl THEN NoEntry ELSE <<ver_str, url>>

EngineOf(target_engines, market) ==
    target_engines[CHOOSE k \in 1..Len(target_engines) :
                      target_engines[k].market = market].engine

\* (mutant of SelectPerMarket: the loop over the markets ends at the first
\* market that gets no entry, so the markets after it get none either)
SelectPerMarketCoupled(metadata, target_engines) ==
    IF SortRaises(metadata.versions)
    THEN [raised |-> TRUE, per_market |-> <<>>]
    ELSE LET sorted == versions_sorted(metadata.versions)
             got(k) == Scan(metadata, sorted, 1, target_engines[k].engine)
             found == {target_engines[k].market : k \in
                         {k \in 1..Len(target_engines) :
                            \A j \in 1..k : got(j) # NoEntry}}
         IN [raised |-> FALSE,
             per_market |->
                [m \in found |->
                    Scan(metadata, sorted, 1, EngineOf(target_engines, m))]]

\* lines 227-266 on metadata that has versions: the sort, then the scan of
\* each market. raised is TRUE when an exception leaves the function, and
\* per_market maps each market with a selection to (version_str, vsix_url).
SelectPerMarket(metadata, target_engines) ==
    IF SortRaises(metadata.versions)
    THEN [raised |-> TRUE, per_market |-> <<>>]
    ELSE LET sorted == versions_sorted(metadata.versions)
             found == {target_engines[k].market : k \in
                         {k \in 1..Len(target_engines) :
                            Scan(metadata, sorted, 1, target_engines[k].engine)
                                # NoEntry}}
         IN [raised |-> FALSE,
             per_market |->
                [m \in found |->
                    Scan(metadata, sorted, 1, EngineOf(target_engines, m))]]

\* (mutant of find_compatible_versions_for_extension: missing metadata and an
\* empty catalog are not handled and raise)
find_compatible_unguarded(response, target_engines) ==
    IF response.status # "ok" \/ Len(response.versions) = 0
    THEN [raised |-> TRUE, per_market |-> <<>>]
    ELSE SelectPerMarket(response, target_engines)

\* find_compatible_versions_for_extension on what the registry answers for
\* the extension: no metadata (the fetch failed or the extension is not
\* listed) and metadata without versions give an empty per_market
find_compatible_versions_for_extension(response, target_engines) ==
    IF response.status # "ok"
    THEN [raised |-> FALSE, per_market |-> <<>>]
    ELSE IF Len(response.versions) = 0
    THEN [raised |-> FALSE, per_market |-> <<>>]
    ELSE SelectPerMarket(response, target_engines)

\* ------------------------------------------------------------------------
\* Registry responses the model draws from
\* ------------------------------------------------------------------------

\* a version string that semantic_version.Version rejects (two components)
BadVersion == "1.0"

\* a value of the engine property that SimpleSpec rejects
BadRange == "vscode"

\* stands for a version entry that has no engine property
NoEngine == "<no engine>"

\* one entry of the "versions" list, at place i of the catalog: its version
\* string, its engine property, and its
\* files: an asset of another type, followed when hasVsix by the VSIX
\* package with its source
VersionEntry(ver, eng, hasVsix, i) ==
    [version    |-> ver,
     properties |-> IF eng = NoEngine
                    THEN <<[key |-> "Microsoft.VisualStudio.Code.PreRelease",
                            value |-> "false"]>>
                    ELSE <<[key |-> EngineKey, value |-> eng]>>,
     files      |-> <<[assetType |-> "Microsoft.VisualStudio.Code.Manifest",
                       source |-> <<"manifest", i>>]>>
                    \o (IF hasVsix
                        THEN <<[assetType |-> VSIXPackage, source |-> <<"cdn", i>>]>>
                        ELSE <<>>)]

\* the catalog of a list of choices (version, engine, hasVsix)
Catalog(c) == [i \in 1..Len(c) |-> VersionEntry(c[i][1], c[i][2], c[i][3], i)]

\* what fetch_extension_metadata_ms returns: None after a failed fetch
\* ("error") or for an extension the registry does not list ("absent"), else
\* the extension's metadata
NoMetadata(status) ==
    [status |-> status, publisherName |-> "", extensionName |-> "", versions |-> <<>>]

Metadata(publisher, versions) ==
    [status |-> "ok", publisherName |-> publisher, extensionName |-> "ext",
     versions |-> versions]

\* ------------------------------------------------------------------------
\* Extension list
\* ------------------------------------------------------------------------

\* EXTENSIONS is empty: the list comes from the installed extensions
EXTENSIONS == <<>>

\* the lines "id@version" that `code --list-extensions --show-versions`
\* prints on this machine; one extension is listed under two spellings
InstalledLines ==
    <<[id |-> "A.X", version |-> "1.0.0"], [id |-> "b.y", version |-> "2.0.0"],
      [id |-> "a.x", version |-> "1.0.0"]>>

\* (mutant of Lower: the ids are kept as they are spelled)
LowerKept(id) == id

\* str.lower on the ids that occur
Lower(id) ==
    CASE id = "A.X" -> "a.x"
      [] id = "B.Y" -> "b.y"
      [] OTHER      -> id

\* the lowercase extension ids, in string order
ExtOrder == <<"a.x", "b.y">>

ExtIds == {ExtOrder[i] : i \in 1..Len(ExtOrder)}

\* the ids that occur, in string order (capitals sort before small letters)
IdOrder == <<"A.X", "B.Y", "a.x", "b.y">>

\* sorted(ids): the ids of a set as a list in string order
SortedIds(ids) == SelectSeq(IdOrder, LAMBDA e : e \in ids)

\* get_installed_extensions, given the CLI's output: the lowercased id and
\* the version of each line
get_installed_extensions(lines) ==
    [i \in 1..Len(lines) |-> [id |-> Lower(lines[i].id), version |-> lines[i].version]]

\* get_extensions_to_sync, given the CLI's output
get_extensions_to_sync(lines) ==
    IF Len(EXTENSIONS) > 0
    THEN SortedIds({Lower(EXTENSIONS[i]) : i \in 1..Len(EXTENSIONS)})
    ELSE LET installed == get_installed_extensions(lines)
         IN SortedIds({Lower(installed[i].id) : i \in 1..Len(installed)})

\* ------------------------------------------------------------------------
\* Files and directories
\* ------------------------------------------------------------------------

\* the version strings of the catalogs the sync runs draw from
RunVersions == {"1.0.0", "2.0.0"}

\* f"{ext_id}-{ver_str}.vsix"
Filename(ext_id, ver_str) == <<ext_id, ver_str>>

\* the *.vsix names that can occur in a market directory: those of the
\* extensions in the list and one of an extension that is no longer synced
FileNames == (ExtIds \X RunVersions) \cup {<<"z.old", "1.0.0">>}

\* a file is "absent", or holds what it held before the first run ("old"),
\* or the complete response of a download ("full"), or what a download that
\* failed after creating the file left behind ("partial")

EmptyDir == [f \in FileNames |-> "absent"]

\* (mutant of Glob: a pattern that matches no package file)
GlobWrongPattern(dir) == {}

\* dir_path.glob("*.vsix")
Glob(dir) == {f \in FileNames : dir[f] # "absent"}

\* the market lists sync_markets may be given (main: all markets, or the -m
\* options); a behaviour gives every run the same one
MarketLists == {<<"cursor", "agy">>, <<"cursor">>, <<"agy">>}

SeqToSet(q) == {q[i] : i \in 1..Len(q)}

\* download_vsix(url, dest_path) on the directory that holds dest_path: an
\* existing file is left alone; otherwise the URL is opened ("open_failed":
\* urlopen or open raised, nothing is created), the file is created and the
\* response is read into it ("read_failed": the read or the write raised after
\* the file was created). The exception is caught in every case. opened tells
\* whether the URL was opened, failure whether an exception was caught.
DownloadOutcomes == {"ok", "open_failed", "read_failed"}

\* (mutant of download_vsix: no test for an existing file)
download_vsix_always(dir, filename, outcome) ==
    [opened  |-> TRUE,
     failure |-> outcome # "ok",
     dir     |-> CASE outcome = "ok"          -> [dir EXCEPT ![filename] = "full"]
                   [] outcome = "open_failed" -> dir
                   [] outcome = "read_failed" -> [dir EXCEPT ![filename] = "partial"]]

download_vsix(dir, filename, outcome) ==
    IF dir[filename] # "absent"
    THEN [opened |-> FALSE, failure |-> FALSE, dir |-> dir]
    ELSE [opened  |-> TRUE,
          failure |-> outcome # "ok",
          dir     |-> CASE outcome = "ok"          -> [dir EXCEPT ![filename] = "full"]
                        [] outcome = "open_failed" -> dir
                        [] outcome = "read_failed" -> [dir EXCEPT ![filename] = "partial"]]

\* (mutant of Outdated: every file of the glob is removed)
OutdatedAll(dir, keep) == {f \in FileNames : dir[f] # "absent"}

\* (mutant of Outdated: a file is only removed when another file of the same
\* extension is kept, so the files of an extension without selection stay)
OutdatedSuperseded(dir, keep) ==
    {f \in Glob(dir) : f \notin keep /\ \E g \in keep : g[1] = f[1]}

\* (mutant of Outdated: a file is only removed when no file of the same
\* extension is kept, so an older version stays beside the selected one)
OutdatedUnlisted(dir, keep) ==
    {f \in Glob(dir) : f \notin keep /\ \A g \in keep : g[1] # f[1]}

\* the files the cleanup loop of a market unlinks: those of the glob whose
\* name is not in keep
Outdated(dir, keep) == {f \in Glob(dir) : f \notin keep}

\* vsix_path.unlink(): "ok" removes the file, "failed" raises OSError
UnlinkOutcomes == {"ok", "failed"}

unlink(dir, filename) == [dir EXCEPT ![filename] = "absent"]

\* ------------------------------------------------------------------------
\* State
\* ------------------------------------------------------------------------

VARIABLES
    registry,        \* what the marketplace answers for each extension id
    disk,            \* market -> file name -> state of the file
    dirs,            \* the market directories that exist
    pc,              \* where the run is
    markets,         \* sync_markets: the markets every run is given, in order
    exts,            \* sync_markets: the extension ids of the run, in order
    extIdx,          \* place in exts of the extension being processed
    per_market,      \* the selection for the extension being processed
    queue,           \* the markets a loop has still to visit
    expected_files,  \* sync_markets: market -> expected file names
    preRun,          \* disk as it was when the run started
    queried,         \* the extension ids whose metadata was fetched in the run
    cleaned,         \* the markets whose cleanup loop has ended in the run
    fetched,         \* (market, file): URLs opened by download_vsix in the run
    deleted,         \* (market, file): files unlinked in the run
    failed,          \* kinds of failure seen in the run
    nfail,           \* I/O failures so far
    prev             \* how the previous run ended

vars == <<registry, disk, dirs, pc, markets, exts, extIdx, per_market, queue,
          expected_files, preRun, queried, cleaned, fetched, deleted, failed,
          nfail, prev>>

\* fetch_extension_metadata_ms(ext_id): what the marketplace answers for the
\* id; an id it does not know gets no extension
fetch_extension_metadata_ms(ext_id) ==
    IF ext_id \in DOMAIN registry THEN registry[ext_id] ELSE NoMetadata("absent")

\* the registry answers of the sync runs: a failed fetch, an unlisted
\* extension, and metadata whose catalog is empty, has an entry with an
\* unparsable version, offers 2.0.0 to every market, or offers 2.0.0 to agy
\* only and 1.0.0 to both
RunResponses ==
    {NoMetadata("error"), NoMetadata("absent"),
     Metadata("pub", <<>>),
     Metadata("pub", <<VersionEntry(BadVersion, "^1.90.0", TRUE, 1)>>),
     Metadata("pub", <<VersionEntry("2.0.0", "^1.90.0", TRUE, 1)>>),
     Metadata("pub", <<VersionEntry("2.0.0", "^1.100.0", TRUE, 1)>>),
     Metadata("pub", <<VersionEntry("1.0.0", "^1.90.0", TRUE, 1),
                       VersionEntry("2.0.0", "^1.100.0", TRUE, 2)>>)}

\* the directories before the first run: at most MaxInitFiles files
InitDisks ==
    {d \in [MarketNames -> [FileNames -> {"absent", "old"}]] :
        Cardinality({mf \in MarketNames \X FileNames : d[mf[1]][mf[2]] # "absent"})
            <= MaxInitFiles}

NoPrev == [status |-> "none", failed |-> {}]

Idle ==
    /\ pc = "idle"
    /\ exts = <<>>
    /\ extIdx = 0
    /\ per_market = <<>>
    /\ queue = <<>>
    /\ expected_files = <<>>
    /\ queried = <<>>
    /\ cleaned = <<>>
    /\ fetched = {}
    /\ deleted = {}
    /\ failed = {}

Init ==
    /\ registry \in [ExtIds -> RunResponses]
    /\ markets \in MarketLists
    /\ disk \in InitDisks
    /\ dirs = {m \in MarketNames : Glob(disk[m]) # {}}
    /\ preRun = disk
    /\ nfail = 0
    /\ prev = NoPrev
    /\ Idle

\* ------------------------------------------------------------------------
\* sync_markets
\* ------------------------------------------------------------------------

\* (mutant of StartRun: the directory of every configured market is created,
\* selected for the run or not)
StartRunAllDirs(cli) ==
    /\ pc = "idle"
    /\ dirs' = dirs \cup MarketNames
    /\ expected_files' = [m \in SeqToSet(markets) |-> {}]
    /\ preRun' = disk
    /\ IF Len(EXTENSIONS) = 0 /\ cli = "none"
       THEN /\ pc' = "exited"
            /\ UNCHANGED <<exts, extIdx>>
       ELSE /\ pc' = "exts"
            /\ exts' = get_extensions_to_sync(InstalledLines)
            /\ extIdx' = 1
    /\ failed' = IF cli = "none" THEN {"cli"} ELSE {}
    /\ UNCHANGED <<registry, disk, markets, per_market, queue, queried, cleaned,
                   fetched, deleted, nfail, prev>>

\* (mutant of StartRun: when no CLI lists the installed extensions the run
\* goes on with the extension list instead of exiting)
StartRunGoesOn(cli) ==
    /\ pc = "idle"
    /\ dirs' = dirs \cup SeqToSet(markets)
    /\ expected_files' = [m \in SeqToSet(markets) |-> {}]
    /\ preRun' = disk
    /\ pc' = "exts"
    /\ exts' = get_extensions_to_sync(InstalledLines)
    /\ extIdx' = 1
    /\ failed' = IF cli = "none" THEN {"cli"} ELSE {}
    /\ UNCHANGED <<registry, disk, markets, per_market, queue, queried, cleaned,
                   fetched, deleted, nfail, prev>>

\* lines 275-294: a directory and an empty expected set for each market of
\* the run, then the extension list. cli is the CLI that listed the
\* installed extensions ("code", or "cursor" after code failed), or "none"
\* when both failed and get_installed_extensions exits the process.
StartRun(cli) ==
    /\ pc = "idle"
    /\ dirs' = dirs \cup SeqToSet(markets)
    /\ expected_files' = [m \in SeqToSet(markets) |-> {}]
    /\ preRun' = disk
    /\ IF Len(EXTENSIONS) = 0 /\ cli = "none"
       THEN /\ pc' = "exited"
            /\ UNCHANGED <<exts, extIdx>>
       ELSE /\ pc' = "exts"
            /\ exts' = get_extensions_to_sync(InstalledLines)
            /\ extIdx' = 1
    /\ failed' = IF cli = "none" THEN {"cli"} ELSE {}
    /\ UNCHANGED <<registry, disk, markets, per_market, queue, queried, cleaned,
                   fetched, deleted, nfail, prev>>

\* line 298 for the extension at extIdx: fetch and select. An exception
\* leaving find_compatible_versions_for_extension leaves sync_markets too.
ResolveExt ==
    /\ pc = "exts"
    /\ extIdx <= Len(exts)
    /\ queried' = Append(queried, exts[extIdx])
    /\ LET r == find_compatible_versions_for_extension(
                    fetch_extension_metadata_ms(exts[extIdx]),
                    get_target_engines(markets))
           items == SelectSeq(markets, LAMBDA m : m \in DOMAIN r.per_market)
       IN IF r.raised
          THEN /\ pc' = "aborted"
               /\ UNCHANGED <<per_market, queue, extIdx>>
          ELSE /\ per_market' = r.per_market
               /\ queue' = items
               /\ IF items = <<>>
                  THEN pc' = "exts" /\ extIdx' = extIdx + 1
                  ELSE pc' = "download" /\ extIdx' = extIdx
    /\ UNCHANGED <<registry, disk, dirs, markets, exts, expected_files, preRun,
                   cleaned, fetched, deleted, failed, nfail, prev>>

\* lines 299-304 for the next item of per_market: the file name joins the
\* market's expected set and download_vsix runs
Download(outcome) ==
    /\ pc = "download"
    /\ LET market == Head(queue)
           ver_str == per_market[market][1]
           filename == Filename(exts[extIdx], ver_str)
           r == download_vsix(disk[market], filename, outcome)
       IN /\ r.failure => nfail < MaxFailures
          /\ outcome # "ok" => r.failure
          /\ expected_files' =
                [expected_files EXCEPT ![market] = @ \cup {filename}]
          /\ disk' = [disk EXCEPT ![market] = r.dir]
          /\ fetched' = IF r.opened THEN fetched \cup {<<market, filename>>}
                        ELSE fetched
          /\ failed' = IF r.failure THEN failed \cup {"download"} ELSE failed
          /\ nfail' = IF r.failure THEN nfail + 1 ELSE nfail
    /\ queue' = Tail(queue)
    /\ IF Tail(queue) = <<>>
       THEN pc' = "exts" /\ extIdx' = extIdx + 1
       ELSE pc' = "download" /\ extIdx' = extIdx
    /\ UNCHANGED <<registry, dirs, markets, exts, per_market, preRun, queried,
                   cleaned, deleted, prev>>

\* line 307, after the last extension: the cleanup loop starts on the
\* markets of market_dirs, in their order
BeginCleanup ==
    /\ pc = "exts"
    /\ extIdx > Len(exts)
    /\ pc' = "cleanup"
    /\ queue' = markets
    /\ per_market' = <<>>
    /\ UNCHANGED <<registry, disk, dirs, markets, exts, extIdx, expected_files,
                   preRun, queried, cleaned, fetched, deleted, failed, nfail, prev>>

\* lines 309-312 for one file of the market being cleaned up: a file of the
\* glob whose name is not kept is unlinked; an exception of unlink leaves
\* sync_markets
CleanupFile(filename, outcome) ==
    /\ pc = "cleanup"
    /\ queue # <<>>
    /\ LET market == Head(queue)
       IN /\ filename \in Outdated(disk[market], expected_files[market])
          /\ IF outcome = "ok"
             THEN /\ disk' = [disk EXCEPT ![market] = unlink(@, filename)]
                  /\ deleted' = deleted \cup {<<market, filename>>}
                  /\ UNCHANGED <<pc, failed, nfail>>
             ELSE /\ nfail < MaxFailures
                  /\ pc' = "aborted"
                  /\ failed' = failed \cup {"delete"}
                  /\ nfail' = nfail + 1
                  /\ UNCHANGED <<disk, deleted>>
    /\ UNCHANGED <<registry, dirs, markets, exts, extIdx, per_market, queue,
                   expected_files, preRun, queried, cleaned, fetched, prev>>

\* the glob of the market being cleaned up has no file left to remove: on to
\* the next market, and after the last one lines 314-315
CleanupNext ==
    /\ pc = "cleanup"
    /\ queue # <<>>
    /\ Outdated(disk[Head(queue)], expected_files[Head(queue)]) = {}
    /\ queue' = Tail(queue)
    /\ cleaned' = Append(cleaned, Head(queue))
    /\ pc' = IF Tail(queue) = <<>> THEN "done" ELSE "cleanup"
    /\ UNCHANGED <<registry, disk, dirs, markets, exts, extIdx, per_market,
                   expected_files, preRun, queried, fetched, deleted, failed, nfail,
                   prev>>

\* the process ends (return, exception or exit); the next run starts afresh
Finish ==
    /\ pc \in {"done", "aborted", "exited"}
    /\ prev' = [status |-> pc, failed |-> failed]
    /\ pc' = "idle"
    /\ exts' = <<>>
    /\ extIdx' = 0
    /\ per_market' = <<>>
    /\ queue' = <<>>
    /\ expected_files' = <<>>
    /\ queried' = <<>>
    /\ cleaned' = <<>>
    /\ fetched' = {}
    /\ deleted' = {}
    /\ failed' = {}
    /\ preRun' = disk
    /\ UNCHANGED <<registry, disk, dirs, markets, nfail>>

Next ==
    \/ \E cli \in {"code", "cursor", "none"} : StartRun(cli)
    \/ ResolveExt
    \/ \E outcome \in DownloadOutcomes : Download(outcome)
    \/ BeginCleanup
    \/ \E f \in FileNames, outcome \in UnlinkOutcomes : CleanupFile(f, outcome)
    \/ CleanupNext
    \/ Finish

Spec == Init /\ [][Next]_vars

\* the program is run again and again, and a run that has begun goes on to
\* its end: some step is always taken. The registry lists one of the two
\* installed extensions.
InitRepeated == Init /\ registry["b.y"] = NoMetadata("absent")

SpecRepeated == InitRepeated /\ [][Next]_vars /\ WF_vars(Next)

\* ------------------------------------------------------------------------
\* Selection on its own: find_compatible_versions_for_extension applied to
\* one registry answer for extension a.x
\* ------------------------------------------------------------------------

SelVersions == {"1.0.0", "2.0.0", "2.0.0+b", BadVersion}

SelEngines == {"^1.90.0", "^1.100.0", "~1.99.0", BadRange, NoEngine}

SelRegistry(r) == [e \in ExtIds |-> IF e = "a.x" THEN r ELSE NoMetadata("absent")]

\* the registry answers for "a.x": no metadata, or metadata with a catalog of
\* up to MaxVersions records
InitCatalog ==
    \/ \E status \in {"error", "absent"} : registry = SelRegistry(NoMetadata(status))
    \/ \E p \in {"", "pub"}, k \in 0..MaxVersions :
          \E c \in [1..k -> SelVersions \X SelEngines \X BOOLEAN] :
             registry = SelRegistry(Metadata(p, Catalog(c)))

InitSelect ==
    /\ InitCatalog
    /\ markets \in MarketLists
    /\ disk = [m \in MarketNames |-> EmptyDir]
    /\ dirs = {}
    /\ preRun = disk
    /\ nfail = 0
    /\ prev = NoPrev
    /\ Idle

\* one call of find_compatible_versions_for_extension("a.x", target_engines)
Select ==
    /\ pc = "idle"
    /\ LET r == find_compatible_versions_for_extension(
                    registry["a.x"], get_target_engines(markets))
       IN /\ per_market' = r.per_market
          /\ pc' = IF r.raised THEN "raised" ELSE "selected"
    /\ UNCHANGED <<registry, disk, dirs, markets, exts, extIdx, queue,
                   expected_files, preRun, queried, cleaned, fetched, deleted,
                   failed, nfail, prev>>

NextSelect == Select

SpecSelect == InitSelect /\ [][NextSelect]_vars

\* ------------------------------------------------------------------------
\* The selection under different target lists: a catalog is drawn, and
\* find_compatible_versions_for_extension is called on it with the engines
\* of one of the target lists
\* ------------------------------------------------------------------------

\* both markets in either order, and each market alone
SelMarketLists == MarketLists \cup {<<"agy", "cursor">>}

InitSelectUnder ==
    /\ InitCatalog
    /\ markets = <<>>
    /\ disk = [m \in MarketNames |-> EmptyDir]
    /\ dirs = {}
    /\ preRun = disk
    /\ nfail = 0
    /\ prev = NoPrev
    /\ Idle

\* find_compatible_versions_for_extension("a.x", get_target_engines(L))
SelectUnder(L) ==
    /\ pc = "idle"
    /\ markets' = L
    /\ LET r == find_compatible_versions_for_extension(
                    registry["a.x"], get_target_engines(L))
       IN /\ per_market' = r.per_market
          /\ pc' = IF r.raised THEN "raised" ELSE "selected"
    /\ UNCHANGED <<registry, disk, dirs, exts, extIdx, queue, expected_files,
                   preRun, queried, cleaned, fetched, deleted, failed, nfail, prev>>

NextSelectUnder == \E L \in SelMarketLists : SelectUnder(L)

SpecSelectUnder == InitSelectUnder /\ [][NextSelectUnder]_vars

\* ------------------------------------------------------------------------
\* Properties of the selection (under SpecSelect)
\* ------------------------------------------------------------------------

\* the catalog and the metadata the selection was made from
Cat == registry["a.x"].versions

\* record i declares a range that parses and includes the engine of market m
RangeIncludes(i, m) ==
    /\ HasEngineProp(Cat[i])
    /\ SpecParses(EngineValue(Cat[i]))
    /\ Matches(SimpleSpec(EngineValue(Cat[i])), Version(MARKET_ENGINES[m]))

Matching(m) == {i \in 1..Len(Cat) : RangeIncludes(i, m)}

\* record j is strictly newer than record i
Newer(j, i) == VersionLess(Version(Cat[i].version), Version(Cat[j].version))

\* the matching records of the highest SemVer
Newest(m) == LET M == Matching(m) IN {i \in M : \A j \in M : ~Newer(j, i)}

\* the newest matching record; of several of equal precedence the first in
\* the catalog
TopMatch(m) == LET N == Newest(m) IN CHOOSE i \in N : \A j \in N : i <= j

\* what selecting record i puts in per_market
PairOf(i) ==
    <<Cat[i].version, get_vsix_url_for_version(registry["a.x"], Cat[i], Cat[i].version)>>

Resolvable(i) == PairOf(i)[2] # NoUrl

\* record i has no engine range or one that does not parse
Unusable(i) == ~HasEngineProp(Cat[i]) \/ ~SpecParses(EngineValue(Cat[i]))

\* the selection never holds a version whose range excludes the market's engine
SelectedMatches ==
    \A m \in DOMAIN per_market : \E i \in Matching(m) : PairOf(i) = per_market[m]

\* C1 as stated: no market gets a version whose range excludes its engine, and
\* whenever some record matches the market and has a resolvable URL, the
\* market's selection is a matching record of the highest SemVer.
C1_AsStated ==
    pc = "selected" =>
        /\ SelectedMatches
        /\ \A m \in SeqToSet(markets) :
              (\E i \in Matching(m) : Resolvable(i)) =>
                 /\ m \in DOMAIN per_market
                 /\ \E i \in Newest(m) : PairOf(i) = per_market[m]

\* C1 amended: no market gets a version whose range excludes its engine, and
\* whenever some record matches the market and the URL of the newest matching
\* record is resolvable, the market's selection is that record, of the highest
\* SemVer among all matching records, also when a newer record does not match.
C1_HighestMatchingSelected ==
    pc = "selected" =>
        /\ SelectedMatches
        /\ \A m \in SeqToSet(markets) :
              LET top == TopMatch(m)
              IN (Matching(m) # {} /\ Resolvable(top)) =>
                    /\ m \in DOMAIN per_market
                    /\ per_market[m] = PairOf(top)

\* a newer record does not match the market, an older one does and is selected
C1_Witness ==
    /\ pc = "selected"
    /\ \E m \in DOMAIN per_market : \E i \in Matching(m), j \in 1..Len(Cat) :
          /\ Newer(j, i)
          /\ HasEngineProp(Cat[j]) /\ SpecParses(EngineValue(Cat[j]))
          /\ ~RangeIncludes(j, m)
          /\ per_market[m] = PairOf(i)

\* C9: when the newest record that matches a market has no resolvable
\* artifact URL, the market gets no entry, whatever older records match.
C9_UnresolvableAbandons ==
    pc = "selected" =>
        \A m \in SeqToSet(markets) :
            (Matching(m) # {} /\ ~Resolvable(TopMatch(m))) => m \notin DOMAIN per_market

\* the newest matching record has no URL, an older matching record has one,
\* and the market has no entry
C9_Witness ==
    /\ pc = "selected"
    /\ \E m \in SeqToSet(markets) :
          /\ Matching(m) # {}
          /\ ~Resolvable(TopMatch(m))
          /\ \E i \in Matching(m) : Newer(TopMatch(m), i) /\ Resolvable(i)
          /\ m \notin DOMAIN per_market

\* C10: a record whose engine range is absent or does not parse is never the
\* one selected; when the catalog holds such records the scan still reaches
\* the newest matching record behind them, and the selection is not aborted.
C10_UnusableRangeSkipped ==
    (pc \in {"selected", "raised"} /\ \E i \in 1..Len(Cat) : Unusable(i)) =>
        /\ (\A i \in 1..Len(Cat) : VersionParses(Cat[i].version)) => pc = "selected"
        /\ pc = "selected" =>
              /\ \A m \in DOMAIN per_market :
                    \E i \in 1..Len(Cat) : ~Unusable(i) /\ PairOf(i) = per_market[m]
              /\ \A m \in SeqToSet(markets) :
                    LET top == TopMatch(m)
                    IN (Matching(m) # {} /\ Resolvable(top)) =>
                          /\ m \in DOMAIN per_market
                          /\ per_market[m] = PairOf(top)

\* a record without a usable range is newer than the record selected behind it
C10_Witness ==
    /\ pc = "selected"
    /\ \E m \in DOMAIN per_market : \E i \in 1..Len(Cat) :
          /\ Unusable(i)
          /\ per_market[m] = PairOf(TopMatch(m))
          /\ Newer(i, TopMatch(m))

\* ------------------------------------------------------------------------
\* Properties of the sync runs (under Spec)
\* ------------------------------------------------------------------------

RunMarkets == DOMAIN expected_files

\* the names of the package files in the directory of market m
OnDisk(m) == {f \in FileNames : disk[m][f] # "absent"}

\* C2: when a run completes and every download and deletion of the run
\* succeeded, the package files in each synced market's directory are exactly
\* the market's expected set.
C2_Convergence ==
    (pc = "done" /\ failed = {}) =>
        \A m \in RunMarkets : OnDisk(m) = expected_files[m]

\* a run has completed without failure after downloading a file and removing
\* another from a directory that was not empty
C2_Witness ==
    /\ pc = "done"
    /\ failed = {}
    /\ \E m \in RunMarkets :
          /\ \E f \in FileNames : <<m, f>> \in fetched
          /\ \E f \in FileNames : <<m, f>> \in deleted
          /\ OnDisk(m) = expected_files[m]

C4_ExistingUntouched ==
    /\ \A m \in RunMarkets : \A f \in expected_files[m] :
          preRun[m][f] # "absent" =>
             /\ disk[m][f] = preRun[m][f]
             /\ <<m, f>> \notin fetched
             /\ <<m, f>> \notin deleted
    /\ \A m \in RunMarkets : \A f \in expected_files[m] : <<m, f>> \notin deleted

\* a run has gone through download and cleanup in which the file selected
\* for a market was already there, and it still holds what it held
C4_Witness ==
    /\ pc = "done"
    /\ \E m \in RunMarkets : \E f \in expected_files[m] :
          preRun[m][f] = "old" /\ disk[m][f] = "old" /\ <<m, f>> \notin fetched

\* C5 as stated: a failure to delete a file does not abort the run.
C5_AsStated ==
    "delete" \in failed => pc # "aborted"

\* C6 as stated: a download step that fails leaves every file as it was, and
\* the run goes on.
C6_AsStated ==
    [][(pc = "download" /\ "download" \in failed' /\ nfail' > nfail) =>
          (disk' = disk /\ pc' \in {"download", "exts"})]_vars

\* the registry answer makes the resolution of the extension fail: no
\* metadata, or metadata without versions
ResolveFails(response) == response.status # "ok" \/ Len(response.versions) = 0

\* C7: the extension whose resolution fails does not abort the run: the loop
\* moves on to the next extension with the directories and the expected sets
\* as they were, and a run is only ever aborted by another cause.
C7_ResolveFailureIsolated ==
    /\ [](pc = "aborted" =>
            \/ "delete" \in failed
            \/ ~ResolveFails(registry[exts[extIdx]]))
    /\ [][(pc = "exts" /\ extIdx <= Len(exts) /\ ResolveFails(registry[exts[extIdx]])) =>
            /\ pc' = "exts"
            /\ extIdx' = extIdx + 1
            /\ disk' = disk
            /\ expected_files' = expected_files]_vars

\* a run has completed although the resolution of the first extension failed:
\* the second one was selected and the cleanup went through every market
C7_Witness ==
    /\ pc = "done"
    /\ ResolveFails(registry["a.x"])
    /\ \E m \in RunMarkets : \E v \in RunVersions :
          Filename("b.y", v) \in expected_files[m]

\* C8 as stated: no failure in the processing of an extension's catalog
\* aborts the run; only I/O of the cleanup could.
C8_AsStated ==
    pc = "aborted" => "delete" \in failed


\* ------------------------------------------------------------------------
\* C11: per-market independence of the selection
\* ------------------------------------------------------------------------

\* the entry of market m in a per_market mapping, NoEntry when it has none
EntryOf(pm, m) == IF m \in DOMAIN pm THEN pm[m] ELSE NoEntry

\* what the catalog and the engine of market m alone determine: the newest
\* matching record (the first in the catalog of several equal ones) when its
\* URL resolves, and nothing otherwise
AloneEntry(m) ==
    LET top == TopMatch(m)
    IN IF Matching(m) # {} /\ Resolvable(top) THEN PairOf(top) ELSE NoEntry

\* C11: the selection made for a market is a function of the catalog and of
\* that market's engine only: under every target list (the market alone, or
\* with the other market before or after it, with or without a selection of
\* its own) it is the entry determined by these two alone, which is the entry
\* the same call makes when the market is the only target.
C11_PerMarketIndependent ==
    pc = "selected" =>
        \A m \in SeqToSet(markets) :
            /\ EntryOf(per_market, m) = AloneEntry(m)
            /\ Len(markets) > 1 =>
                  EntryOf(find_compatible_versions_for_extension(
                              registry["a.x"], get_target_engines(<<m>>)).per_market, m)
                     = EntryOf(per_market, m)

\* two markets are targeted, the first of them gets no entry although the
\* catalog is not empty, and the second gets one
C11_Witness ==
    /\ pc = "selected"
    /\ Len(markets) = 2
    /\ Len(Cat) > 0
    /\ markets[1] \notin DOMAIN per_market
    /\ markets[2] \in DOMAIN per_market
    /\ markets[1] = "agy"


\* ------------------------------------------------------------------------
\* C12: no installed-extension listing, no network activity
\* ------------------------------------------------------------------------

\* C12: in a run where EXTENSIONS is empty and neither CLI lists the installed
\* extensions, the run has exited, and no metadata was fetched, no URL was
\* opened, no file was deleted and no file of any directory has changed.
C12_ExitBeforeNetwork ==
    "cli" \in failed =>
        /\ pc = "exited"
        /\ queried = <<>>
        /\ fetched = {}
        /\ deleted = {}
        /\ disk = preRun

\* the run has exited for want of a listing, although the registry has
\* versions of an installed extension and a synced directory holds a stale
\* file
C12_Witness ==
    /\ pc = "exited"
    /\ "cli" \in failed
    /\ Len(EXTENSIONS) = 0
    /\ \E e \in ExtIds : registry[e].status = "ok" /\ Len(registry[e].versions) > 0
    /\ \E m \in SeqToSet(markets) : disk[m][<<"z.old", "1.0.0">>] = "old"


\* ------------------------------------------------------------------------
\* C13: at most one package file per extension and market
\* ------------------------------------------------------------------------

\* the extension ids that file names of the directories carry
FileExtIds == {f[1] : f \in FileNames}

\* the selection the registry's answers give extension e under the markets of
\* the run; an extension that is not on the list has none
SelectionOf(e) ==
    IF e \in SeqToSet(exts)
    THEN find_compatible_versions_for_extension(
             registry[e], get_target_engines(markets)).per_market
    ELSE <<>>

\* C13: when a run has completed and no download and no deletion of it has
\* failed, every synced directory holds, for each extension, exactly the file
\* of the version selected for that extension and market, and no file of the
\* extension when nothing was selected for it there.
C13_OneFilePerExtension ==
    (pc = "done" /\ failed = {}) =>
        \A m \in RunMarkets, e \in FileExtIds :
            LET have == {f \in OnDisk(m) : f[1] = e}
                sel == SelectionOf(e)
            IN /\ Cardinality(have) <= 1
               /\ have = IF m \in DOMAIN sel THEN {<<e, sel[m][1]>>} ELSE {}

\* a directory held another version of an extension before the run; the run
\* has fetched the selected version and removed the other one
C13_Witness ==
    /\ pc = "done"
    /\ failed = {}
    /\ \E m \in RunMarkets, e \in ExtIds, v \in RunVersions, w \in RunVersions :
          /\ v # w
          /\ preRun[m][<<e, v>>] # "absent"
          /\ <<m, <<e, v>>>> \in deleted
          /\ <<m, <<e, w>>>> \in fetched
          /\ {f \in OnDisk(m) : f[1] = e} = {<<e, w>>}


\* ------------------------------------------------------------------------
\* C14: extension ids are case-insensitive
\* ------------------------------------------------------------------------

\* the spellings of each extension id, and the lowercase one among them
Spellings == {{"A.X", "a.x"}, {"B.Y", "b.y"}}

LowercaseIds == {"a.x", "b.y"}

\* the places of a sequence that hold a spelling of K
PlacesOf(seq, K) == {i \in 1..Len(seq) : seq[i] \in K}

\* C14: in a run that has its extension list, every extension that is
\* installed under one or several spellings is on the list exactly once,
\* under its lowercase id; its metadata is fetched at most once in the run;
\* and every expected file name consists of a lowercase id and a version
\* string exactly as the registry gives it for that id, at most one name per
\* extension and market.
C14_CaseInsensitive ==
    pc \notin {"idle", "exited"} =>
        /\ \A i \in 1..Len(exts) : exts[i] \in LowercaseIds
        /\ \A K \in Spellings :
              /\ PlacesOf([i \in 1..Len(InstalledLines) |-> InstalledLines[i].id], K) # {}
                    => Cardinality(PlacesOf(exts, K)) = 1
              /\ Cardinality(PlacesOf(queried, K)) <= 1
              /\ \A m \in RunMarkets :
                    Cardinality({f \in expected_files[m] : f[1] \in K}) <= 1
        /\ \A m \in RunMarkets : \A f \in expected_files[m] :
              /\ f[1] \in LowercaseIds
              /\ \E i \in 1..Len(registry[f[1]].versions) :
                    registry[f[1]].versions[i].version = f[2]

\* an extension installed as "A.X" and as "a.x" has been fetched once in a
\* completed run, and its one file name is expected
C14_Witness ==
    /\ pc = "done"
    /\ Cardinality(PlacesOf([i \in 1..Len(InstalledLines) |-> InstalledLines[i].id],
                            {"A.X", "a.x"})) = 2
    /\ Cardinality(PlacesOf(queried, {"A.X", "a.x"})) = 1
    /\ \E m \in RunMarkets :
          Cardinality({f \in expected_files[m] : f[1] = "a.x"}) = 1


\* ------------------------------------------------------------------------
\* C15: the order of the scan
\* ------------------------------------------------------------------------

\* the catalog place of a record (the catalogs of the model number the
\* sources of their records)
PlaceOf(vdata) == vdata.files[1].source[2]

\* C15: the scan order of a catalog holds every record of the catalog once,
\* no record before a record of higher precedence, and records of equal
\* precedence in their catalog order; and when several records that match a
\* market share the highest precedence, the first of them in the catalog
\* decides the market's entry.
C15_StableDescending ==
    pc = "selected" =>
        LET S == versions_sorted(Cat)
        IN /\ Len(S) = Len(Cat)
           /\ \A i \in 1..Len(Cat) : \E p \in 1..Len(S) : S[p] = Cat[i]
           /\ \A p \in 1..Len(S), q \in 1..Len(S) :
                 p < q =>
                    /\ ~VersionLess(Version(S[p].version), Version(S[q].version))
                    /\ Version(S[p].version) = Version(S[q].version)
                          => PlaceOf(S[p]) < PlaceOf(S[q])
           /\ \A m \in SeqToSet(markets) :
                 LET N == Newest(m)
                     first == CHOOSE i \in N : \A j \in N : i <= j
                 IN Cardinality(N) > 1 =>
                       EntryOf(per_market, m)
                          = IF Resolvable(first) THEN PairOf(first) ELSE NoEntry

\* two records of equal precedence and different version strings match a
\* market, nothing newer does, and the market has the entry of the one that
\* comes first in the catalog
C15_Witness ==
    /\ pc = "selected"
    /\ \E m \in DOMAIN per_market : \E i \in Newest(m), j \in Newest(m) :
          /\ i < j
          /\ Cat[i].version # Cat[j].version
          /\ PairOf(i) # PairOf(j)
          /\ per_market[m] = PairOf(i)


\* ------------------------------------------------------------------------
\* C16: the extension loop first, then the cleanup of every market
\* ------------------------------------------------------------------------

\* the extension loop of the run has ended: every extension was processed
LoopEnded == pc \in {"cleanup", "done", "aborted"} /\ extIdx > Len(exts)

\* each market of the run has had its cleanup, once
CleanedOnce ==
    /\ SeqToSet(cleaned) = SeqToSet(markets)
    /\ Len(cleaned) = Cardinality(SeqToSet(markets))

\* a step takes no name out of an expected set
ExpectedOnlyGrow ==
    \A m \in DOMAIN expected_files :
        m \in DOMAIN expected_files' /\ expected_files[m] \subseteq expected_files'[m]

\* C16 as stated: a file is only deleted once the metadata of every extension
\* on the list has been fetched and the loop has ended; while the loop runs
\* no name leaves an expected set; and a run whose loop has ended ends with
\* the cleanup performed once for each of its markets.
C16_AsStated ==
    /\ [](deleted # {} => (LoopEnded /\ queried = exts))
    /\ [][(pc = "exts" \/ pc = "download") => ExpectedOnlyGrow]_vars
    /\ []((LoopEnded /\ pc # "cleanup") => CleanedOnce)


\* ------------------------------------------------------------------------
\* C17: the files of an extension without selection are cleaned up
\* ------------------------------------------------------------------------

\* the files of extension e that directory m held when the run began
HeldBefore(m, e) == {f \in FileNames : f[1] = e /\ preRun[m][f] # "absent"}

\* the run has removed every file of extension e from directory m
AllRemoved(m, e) ==
    /\ \A f \in FileNames : f[1] = e => disk[m][f] = "absent"
    /\ \A f \in HeldBefore(m, e) : <<m, f>> \in deleted

\* C17: an extension whose resolution fails has no name in any expected set
\* at any point of the run, and when the run has completed (so that no
\* deletion failed) every file of it that a synced directory held is deleted;
\* an extension without selection in one market has its files deleted from
\* that market's directory, while in each market where a version of it is
\* selected that version's file is not deleted and, if it was there before
\* the run, is still there as it was.
C17_UnselectedCleaned ==
    \A e \in SeqToSet(exts) :
        LET sel == SelectionOf(e)
        IN /\ ResolveFails(registry[e]) =>
                 /\ sel = <<>>
                 /\ \A m \in RunMarkets : \A f \in expected_files[m] : f[1] # e
           /\ pc = "done" =>
                 \A m \in RunMarkets :
                     IF m \notin DOMAIN sel
                     THEN AllRemoved(m, e)
                     ELSE LET f == <<e, sel[m][1]>>
                          IN /\ <<m, f>> \notin deleted
                             /\ preRun[m][f] # "absent" => disk[m][f] = preRun[m][f]

\* a completed run has deleted the file of an extension from the directory of
\* the market that has no compatible version of it, and its file for the
\* other market is in that market's directory; the other extension's
\* resolution failed
C17_Witness ==
    /\ pc = "done"
    /\ Len(markets) = 2
    /\ \E e \in SeqToSet(exts), m \in RunMarkets, n \in RunMarkets :
          /\ m \notin DOMAIN SelectionOf(e)
          /\ n \in DOMAIN SelectionOf(e)
          /\ HeldBefore(m, e) # {}
          /\ AllRemoved(m, e)
          /\ disk[n][<<e, SelectionOf(e)[n][1]>>] = "full"
          /\ \E d \in SeqToSet(exts) : d # e /\ ResolveFails(registry[d])


\* ------------------------------------------------------------------------
\* C18: a run touches the directories of its markets only
\* ------------------------------------------------------------------------

\* the configured markets that the run was not asked to sync
NotSelected == MarketNames \ SeqToSet(markets)

\* a step leaves the directory of a market that is not selected as it is:
\* not created, and every file in it unchanged
OthersUntouched ==
    \A m \in NotSelected : disk'[m] = disk[m] /\ (m \in dirs' <=> m \in dirs)

\* a step of the cleanup changes files of the market being cleaned up only,
\* and only by deleting files that this market's expected set does not hold
CleanupOwnOnly ==
    (pc = "cleanup" /\ disk' # disk) =>
        /\ \A n \in MarketNames \ {Head(queue)} : disk'[n] = disk[n]
        /\ \A f \in FileNames :
              disk'[Head(queue)][f] # disk[Head(queue)][f] =>
                 /\ f \notin expected_files[Head(queue)]
                 /\ disk'[Head(queue)][f] = "absent"
        /\ \A f \in expected_files[Head(queue)] :
              disk'[Head(queue)][f] = disk[Head(queue)][f]

\* C18: no step of a run changes or creates the directory of a configured
\* market that is not among the markets of the run, no URL is opened and no
\* file deleted for such a market, and the cleanup of a market deletes files
\* of that market's directory only, those and only those that its own
\* expected set does not hold.
C18_OnlySelectedMarkets ==
    /\ [][OthersUntouched /\ CleanupOwnOnly]_vars
    /\ [](\A mf \in fetched \cup deleted : mf[1] \in SeqToSet(markets))
    /\ []((pc = "cleanup" /\ queue # <<>>) => Head(queue) \in SeqToSet(markets))

\* a run for cursor alone has completed after opening a URL; the directory of
\* agy holds a file that no run would keep, untouched
C18_Witness ==
    /\ pc = "done"
    /\ markets = <<"cursor">>
    /\ \E f \in FileNames : <<"cursor", f>> \in fetched
    /\ disk["agy"][<<"z.old", "1.0.0">>] = "old"
    /\ disk["agy"] = preRun["agy"]


\* ------------------------------------------------------------------------
\* C19: repeated runs make up for failed downloads
\* ------------------------------------------------------------------------

\* every expected file of every market of the run is in its directory with
\* complete contents, and the directories hold nothing else
AllComplete ==
    \A m \in RunMarkets :
        /\ OnDisk(m) = expected_files[m]
        /\ \A f \in expected_files[m] : disk[m][f] \in {"full", "old"}

\* C19 as stated: when runs complete again and again (the registry's answers
\* stay the same, and the failures of downloads and deletions come to an
\* end), some run completes with every expected file of its markets present
\* with complete contents and nothing else in the directories.
C19_AsStated ==
    []<>(pc = "done") => <>(pc = "done" /\ AllComplete)

====
